---------------------------- MODULE Spec2Model ----------------------------
(***************************************************************************)
(* The NVENC stub library src/sys/stubs/nvEncodeAPI.c: 43 exported         *)
(* functions, each with the body `{ return 0; }`, and no object of static  *)
(* storage.  The model is the stub together with its callers: a caller     *)
(* fills an output location, enters a stub function with a handle and a    *)
(* pointer, the function body runs (one step), and the caller reads the    *)
(* returned status.                                                        *)
(***************************************************************************)
EXTENDS Integers, Sequences, FiniteSets, TLC

\* ------------------------------------------------------------- bounds
NumCallers == 2     \* concurrent callers of ConcSpec (Spec has one caller)
MaxHandle  == 1     \* encoder handle values 0 (null) .. MaxHandle
MaxValue   == 1     \* values a caller can put in its output location

\* ---------------------------------------------------------- constants
\* The status every body returns: the literal of `return 0`.
NV_ENC_SUCCESS == 0
\* The null pointer / null handle.
Null == 0

AllCallers == 1..NumCallers
Handles    == 0..MaxHandle
Values     == 0..MaxValue

\* The address of caller t's output location (callers own one location each;
\* addresses are non-null).
Addr(t) == t

\* ------------------------------------------------------ the stub table
\* Every function the file defines, with the operation it stands for.
StubTable ==
    { <<"NvEncOpenEncodeSession", "session open">>,
      <<"NvEncGetEncodeGUIDCount", "encode-GUID enumeration">>,
      <<"NvEncGetEncodeGUIDs", "encode-GUID enumeration">>,
      <<"NvEncGetEncodeProfileGUIDCount", "profile-GUID enumeration">>,
      <<"NvEncGetEncodeProfileGUIDs", "profile-GUID enumeration">>,
      <<"NvEncGetInputFormatCount", "input-format enumeration">>,
      <<"NvEncGetInputFormats", "input-format enumeration">>,
      <<"NvEncGetEncodeCaps", "capability query">>,
      <<"NvEncGetEncodePresetCount", "preset enumeration">>,
      <<"NvEncGetEncodePresetGUIDs", "preset enumeration">>,
      <<"NvEncGetEncodePresetConfig", "preset config retrieval">>,
      <<"NvEncGetEncodePresetConfigEx", "preset config retrieval (extended)">>,
      <<"NvEncInitializeEncoder", "encoder initialization">>,
      <<"NvEncCreateInputBuffer", "input buffer creation">>,
      <<"NvEncDestroyInputBuffer", "input buffer destruction">>,
      <<"NvEncSetIOCudaStreams", "IO stream selection">>,
      <<"NvEncCreateBitstreamBuffer", "bitstream buffer creation">>,
      <<"NvEncDestroyBitstreamBuffer", "bitstream buffer destruction">>,
      <<"NvEncEncodePicture", "picture encoding">>,
      <<"NvEncLockBitstream", "bitstream lock">>,
      <<"NvEncUnlockBitstream", "bitstream unlock">>,
      <<"NvEncRestoreEncoderState", "encoder-state restore">>,
      <<"NvEncLockInputBuffer", "input-buffer lock">>,
      <<"NvEncUnlockInputBuffer", "input-buffer unlock">>,
      <<"NvEncGetEncodeStats", "statistics retrieval">>,
      <<"NvEncGetSequenceParams", "sequence-parameter retrieval">>,
      <<"NvEncGetSequenceParamEx", "sequence-parameter retrieval (extended)">>,
      <<"NvEncRegisterAsyncEvent", "async-event registration">>,
      <<"NvEncUnregisterAsyncEvent", "async-event unregistration">>,
      <<"NvEncMapInputResource", "input-resource map">>,
      <<"NvEncUnmapInputResource", "input-resource unmap">>,
      <<"NvEncDestroyEncoder", "encoder destruction">>,
      <<"NvEncInvalidateRefFrames", "reference-frame invalidation">>,
      <<"NvEncOpenEncodeSessionEx", "session open-ex">>,
      <<"NvEncRegisterResource", "resource registration">>,
      <<"NvEncUnregisterResource", "resource unregistration">>,
      <<"NvEncReconfigureEncoder", "encoder reconfiguration">>,
      <<"NvEncCreateMVBuffer", "motion-vector buffer creation">>,
      <<"NvEncDestroyMVBuffer", "motion-vector buffer destruction">>,
      <<"NvEncRunMotionEstimationOnly", "motion-estimation-only run">>,
      <<"NvEncodeAPIGetMaxSupportedVersion", "max-supported-version query">>,
      <<"NvEncLookaheadPicture", "lookahead picture submission">>,
      <<"NvEncodeAPICreateInstance", "function-list factory">> }

Functions == { p[1] : p \in StubTable }

\* The operation each function stands for ("none": no function entered).
OperationOf ==
    [f \in Functions \cup {"none"} |->
        IF f = "none" THEN "none" ELSE (CHOOSE p \in StubTable : p[1] = f)[2]]

Operation(f) == OperationOf[f]

\* The operations the stub has a function for.
DefinedOperations == { p[2] : p \in StubTable }

\* Signatures: the functions whose first parameter is not `void* encoder`.
NoEncoderArg ==
    { "NvEncOpenEncodeSession", "NvEncOpenEncodeSessionEx",
      "NvEncodeAPIGetMaxSupportedVersion", "NvEncodeAPICreateInstance" }

\* Signatures: the functions with no pointer parameter besides the handle.
NoPointerArg == { "NvEncDestroyEncoder", "NvEncInvalidateRefFrames" }

EncoderArgs(f) == IF f \in NoEncoderArg THEN {Null} ELSE Handles

PointerArgs(t, f) == IF f \in NoPointerArg THEN {Null} ELSE {Null, Addr(t)}

\* ---------------------------------------------------------------- state
VARIABLES
    callers,    \* the callers of this run: {1} (sequential) or 1..NumCallers
    pc,         \* pc[t]: "idle", "in" (inside a stub function), "ret" (returned)
    call,       \* call[t]: the function entered, its arguments, and the value
                \*          the caller put in its output location before the call
    ret,        \* ret[t]: << >>, or <<status>> once the function has returned
    mem,        \* mem[t]: the content of caller t's output location
    stub,       \* what the stub itself holds (the file has no static object)
    hist        \* the calls the sequential caller has completed so far

vars == <<callers, pc, call, ret, mem, stub, hist>>

NoCall == [fn |-> "none", encoder |-> Null, out |-> Null, before |-> 0]

\* The file declares no variable: nothing is held between calls.
InitStub ==
    [sessions |-> {}, buffers |-> {}, registered |-> {}, mapped |-> {},
     locks |-> {}, events |-> {}]

\* The functions that, in the real encoder, hand out something a later call
\* must give back, and the function that gives it back.
Matching ==
    [NvEncDestroyInputBuffer     |-> "NvEncCreateInputBuffer",
     NvEncDestroyBitstreamBuffer |-> "NvEncCreateBitstreamBuffer",
     NvEncDestroyMVBuffer        |-> "NvEncCreateMVBuffer",
     NvEncUnlockBitstream        |-> "NvEncLockBitstream",
     NvEncUnlockInputBuffer      |-> "NvEncLockInputBuffer",
     NvEncUnmapInputResource     |-> "NvEncMapInputResource",
     NvEncUnregisterResource     |-> "NvEncRegisterResource",
     NvEncUnregisterAsyncEvent   |-> "NvEncRegisterAsyncEvent"]

ReleaseFns == DOMAIN Matching

AcquireFns == { Matching[f] : f \in ReleaseFns }

OpenFns == { "NvEncOpenEncodeSession", "NvEncOpenEncodeSessionEx" }

InitHist == [opened |-> FALSE, destroyed |-> {}, acquired |-> {}]

\* The history after the call c has returned.
Record(h, c) ==
    [opened    |-> h.opened \/ c.fn \in OpenFns,
     destroyed |-> IF c.fn = "NvEncDestroyEncoder"
                   THEN h.destroyed \cup {c.encoder} ELSE h.destroyed,
     acquired  |-> IF c.fn \in AcquireFns
                   THEN h.acquired \cup {c.fn} ELSE h.acquired]

Sequential == Cardinality(callers) = 1

TypeOK ==
    /\ callers \subseteq AllCallers
    /\ pc \in [AllCallers -> {"idle", "in", "ret"}]
    /\ \A t \in AllCallers :
          /\ call[t].fn \in Functions \cup {"none"}
          /\ call[t].encoder \in Handles
          /\ call[t].out \in {Null, Addr(t)}
          /\ call[t].before \in Values
          /\ Len(ret[t]) <= 1
          /\ mem[t] \in Values

InitWith(cs) ==
    /\ callers = cs
    /\ pc = [t \in AllCallers |-> "idle"]
    /\ call = [t \in AllCallers |-> NoCall]
    /\ ret = [t \in AllCallers |-> << >>]
    /\ mem = [t \in AllCallers |-> 0]
    /\ stub = InitStub
    /\ hist = InitHist

\* One caller, calling the functions one after the other.
Init == InitWith({1})

\* NumCallers callers, calling concurrently.
ConcInit == InitWith(AllCallers)

\* ------------------------------------------------------------ the caller
\* The caller puts v in its output location and enters f with a handle and
\* a pointer of its choice (null, or the address of its location).
Invoke(t) ==
    /\ pc[t] = "idle"
    /\ \E f \in Functions :
        \E e \in EncoderArgs(f), p \in PointerArgs(t, f), v \in Values :
            /\ call' = [call EXCEPT ![t] =
                           [fn |-> f, encoder |-> e, out |-> p, before |-> v]]
            /\ mem' = [mem EXCEPT ![t] = v]
    /\ pc' = [pc EXCEPT ![t] = "in"]
    /\ UNCHANGED <<callers, ret, stub, hist>>

\* The caller has read the status and is ready for its next call.
Resume(t) ==
    /\ pc[t] = "ret"
    /\ pc' = [pc EXCEPT ![t] = "idle"]
    /\ call' = [call EXCEPT ![t] = NoCall]
    /\ ret' = [ret EXCEPT ![t] = << >>]
    /\ hist' = IF Sequential THEN Record(hist, call[t]) ELSE hist
    /\ UNCHANGED <<callers, mem, stub>>

\* ------------------------------------------------------ function bodies
\* Some status other than success.
ErrorStatus == NV_ENC_SUCCESS + 1

\* Caller t is inside the function f.
Entered(t, f) == pc[t] = "in" /\ call[t].fn = f

\* `return status;`: control goes back to the caller with the status.
Return(t, status) ==
    /\ pc' = [pc EXCEPT ![t] = "ret"]
    /\ ret' = [ret EXCEPT ![t] = <<status>>]
    /\ UNCHANGED <<callers, call, hist>>

\* Variant: the body stores a handle through encoder.
NvEncOpenEncodeSession_Producing(t) ==
    /\ Entered(t, "NvEncOpenEncodeSession")
    /\ Return(t, NV_ENC_SUCCESS)
    /\ mem' = IF call[t].out = Null THEN mem ELSE [mem EXCEPT ![t] = Addr(t)]
    /\ UNCHANGED stub

\* line 3: NVENCSTATUS NvEncOpenEncodeSession(void* device, uint32_t deviceType, void** encoder) { return 0; }
NvEncOpenEncodeSession(t) ==
    /\ Entered(t, "NvEncOpenEncodeSession")
    /\ Return(t, NV_ENC_SUCCESS)
    /\ UNCHANGED <<mem, stub>>

\* Variant: the body stores a count of 0 through encodeGUIDCount.
NvEncGetEncodeGUIDCount_Writing(t) ==
    /\ Entered(t, "NvEncGetEncodeGUIDCount")
    /\ Return(t, NV_ENC_SUCCESS)
    /\ mem' = IF call[t].out = Null THEN mem ELSE [mem EXCEPT ![t] = 0]
    /\ UNCHANGED stub

\* line 4: NVENCSTATUS NvEncGetEncodeGUIDCount(void* encoder, uint32_t* encodeGUIDCount) { return 0; }
NvEncGetEncodeGUIDCount(t) ==
    /\ Entered(t, "NvEncGetEncodeGUIDCount")
    /\ Return(t, NV_ENC_SUCCESS)
    /\ UNCHANGED <<mem, stub>>

\* line 5: NVENCSTATUS NvEncGetEncodeGUIDs(void* encoder, GUID* GUIDs, uint32_t guidArraySize, uint32_t* GUIDCount) { return 0; }
NvEncGetEncodeGUIDs(t) ==
    /\ Entered(t, "NvEncGetEncodeGUIDs")
    /\ Return(t, NV_ENC_SUCCESS)
    /\ UNCHANGED <<mem, stub>>

\* line 6: NVENCSTATUS NvEncGetEncodeProfileGUIDCount(void* encoder, GUID encodeGUID, uint32_t* encodeProfileGUIDCount) { return 0; }
NvEncGetEncodeProfileGUIDCount(t) ==
    /\ Entered(t, "NvEncGetEncodeProfileGUIDCount")
    /\ Return(t, NV_ENC_SUCCESS)
    /\ UNCHANGED <<mem, stub>>

\* line 7: NVENCSTATUS NvEncGetEncodeProfileGUIDs(void* encoder, GUID encodeGUID, GUID* profileGUIDs, uint32_t guidArraySize, uint32_t* GUIDCount) { return 0; }
NvEncGetEncodeProfileGUIDs(t) ==
    /\ Entered(t, "NvEncGetEncodeProfileGUIDs")
    /\ Return(t, NV_ENC_SUCCESS)
    /\ UNCHANGED <<mem, stub>>

\* line 8: NVENCSTATUS NvEncGetInputFormatCount(void* encoder, GUID encodeGUID, uint32_t* inputFmtCount) { return 0; }
NvEncGetInputFormatCount(t) ==
    /\ Entered(t, "NvEncGetInputFormatCount")
    /\ Return(t, NV_ENC_SUCCESS)
    /\ UNCHANGED <<mem, stub>>

\* line 9: NVENCSTATUS NvEncGetInputFormats(void* encoder, GUID encodeGUID, NV_ENC_BUFFER_FORMAT* inputFmts, uint32_t inputFmtArraySize, uint32_t* inputFmtCount) { return 0; }
NvEncGetInputFormats(t) ==
    /\ Entered(t, "NvEncGetInputFormats")
    /\ Return(t, NV_ENC_SUCCESS)
    /\ UNCHANGED <<mem, stub>>

\* Variant: the body validates its pointer argument.
NvEncGetEncodeCaps_Validating(t) ==
    /\ Entered(t, "NvEncGetEncodeCaps")
    /\ Return(t, IF call[t].out = Null THEN ErrorStatus ELSE NV_ENC_SUCCESS)
    /\ UNCHANGED <<mem, stub>>

\* line 10: NVENCSTATUS NvEncGetEncodeCaps(void* encoder, GUID encodeGUID, NV_ENC_CAPS_PARAM* capsParam, int* capsVal) { return 0; }
NvEncGetEncodeCaps(t) ==
    /\ Entered(t, "NvEncGetEncodeCaps")
    /\ Return(t, NV_ENC_SUCCESS)
    /\ UNCHANGED <<mem, stub>>

\* line 11: NVENCSTATUS NvEncGetEncodePresetCount(void* encoder, GUID encodeGUID, uint32_t* encodePresetGUIDCount) { return 0; }
NvEncGetEncodePresetCount(t) ==
    /\ Entered(t, "NvEncGetEncodePresetCount")
    /\ Return(t, NV_ENC_SUCCESS)
    /\ UNCHANGED <<mem, stub>>

\* line 12: NVENCSTATUS NvEncGetEncodePresetGUIDs(void* encoder, GUID encodeGUID, GUID* presetGUIDs, uint32_t guidArraySize, uint32_t* encodePresetGUIDCount) { return 0; }
NvEncGetEncodePresetGUIDs(t) ==
    /\ Entered(t, "NvEncGetEncodePresetGUIDs")
    /\ Return(t, NV_ENC_SUCCESS)
    /\ UNCHANGED <<mem, stub>>

\* line 13: NVENCSTATUS NvEncGetEncodePresetConfig(void* encoder, GUID encodeGUID, GUID presetGUID, NV_ENC_PRESET_CONFIG* presetConfig) { return 0; }
NvEncGetEncodePresetConfig(t) ==
    /\ Entered(t, "NvEncGetEncodePresetConfig")
    /\ Return(t, NV_ENC_SUCCESS)
    /\ UNCHANGED <<mem, stub>>

\* line 14: NVENCSTATUS NvEncGetEncodePresetConfigEx(void* encoder, GUID encodeGUID, GUID presetGUID, NV_ENC_TUNING_INFO tuningInfo, NV_ENC_PRESET_CONFIG* presetConfig) { return 0; }
NvEncGetEncodePresetConfigEx(t) ==
    /\ Entered(t, "NvEncGetEncodePresetConfigEx")
    /\ Return(t, NV_ENC_SUCCESS)
    /\ UNCHANGED <<mem, stub>>

\* line 15: NVENCSTATUS NvEncInitializeEncoder(void* encoder, NV_ENC_INITIALIZE_PARAMS* createEncodeParams) { return 0; }
NvEncInitializeEncoder(t) ==
    /\ Entered(t, "NvEncInitializeEncoder")
    /\ Return(t, NV_ENC_SUCCESS)
    /\ UNCHANGED <<mem, stub>>

\* Variant: the body records the buffer it was asked to create.
NvEncCreateInputBuffer_Recording(t) ==
    /\ Entered(t, "NvEncCreateInputBuffer")
    /\ Return(t, NV_ENC_SUCCESS)
    /\ stub' = [stub EXCEPT !.buffers = @ \cup {call[t].out}]
    /\ UNCHANGED mem

\* line 16: NVENCSTATUS NvEncCreateInputBuffer(void* encoder, NV_ENC_CREATE_INPUT_BUFFER* createInputBufferParams) { return 0; }
NvEncCreateInputBuffer(t) ==
    /\ Entered(t, "NvEncCreateInputBuffer")
    /\ Return(t, NV_ENC_SUCCESS)
    /\ UNCHANGED <<mem, stub>>

\* line 17: NVENCSTATUS NvEncDestroyInputBuffer(void* encoder, NV_ENC_INPUT_PTR inputBuffer) { return 0; }
NvEncDestroyInputBuffer(t) ==
    /\ Entered(t, "NvEncDestroyInputBuffer")
    /\ Return(t, NV_ENC_SUCCESS)
    /\ UNCHANGED <<mem, stub>>

\* line 18: NVENCSTATUS NvEncSetIOCudaStreams(void* encoder, NV_ENC_CUSTREAM_PTR inputStream, NV_ENC_CUSTREAM_PTR outputStream) { return 0; }
NvEncSetIOCudaStreams(t) ==
    /\ Entered(t, "NvEncSetIOCudaStreams")
    /\ Return(t, NV_ENC_SUCCESS)
    /\ UNCHANGED <<mem, stub>>

\* line 19: NVENCSTATUS NvEncCreateBitstreamBuffer(void* encoder, NV_ENC_CREATE_BITSTREAM_BUFFER* createBitstreamBufferParams) { return 0; }
NvEncCreateBitstreamBuffer(t) ==
    /\ Entered(t, "NvEncCreateBitstreamBuffer")
    /\ Return(t, NV_ENC_SUCCESS)
    /\ UNCHANGED <<mem, stub>>

\* line 20: NVENCSTATUS NvEncDestroyBitstreamBuffer(void* encoder, NV_ENC_OUTPUT_PTR bitstreamBuffer) { return 0; }
NvEncDestroyBitstreamBuffer(t) ==
    /\ Entered(t, "NvEncDestroyBitstreamBuffer")
    /\ Return(t, NV_ENC_SUCCESS)
    /\ UNCHANGED <<mem, stub>>

\* Variant: the body reports an error while another caller is inside the stub.
NvEncEncodePicture_Busy(t) ==
    /\ Entered(t, "NvEncEncodePicture")
    /\ Return(t, IF \E u \in callers \ {t} : pc[u] = "in"
                 THEN ErrorStatus ELSE NV_ENC_SUCCESS)
    /\ UNCHANGED <<mem, stub>>

\* line 21: NVENCSTATUS NvEncEncodePicture(void* encoder, NV_ENC_PIC_PARAMS* encodePicParams) { return 0; }
NvEncEncodePicture(t) ==
    /\ Entered(t, "NvEncEncodePicture")
    /\ Return(t, NV_ENC_SUCCESS)
    /\ UNCHANGED <<mem, stub>>

\* Variant: the body waits for the bitstream lock and takes it.
NvEncLockBitstream_Blocking(t) ==
    /\ Entered(t, "NvEncLockBitstream")
    /\ stub.locks = {}
    /\ Return(t, NV_ENC_SUCCESS)
    /\ stub' = [stub EXCEPT !.locks = {t}]
    /\ UNCHANGED mem

\* line 22: NVENCSTATUS NvEncLockBitstream(void* encoder, NV_ENC_LOCK_BITSTREAM* lockBitstreamBufferParams) { return 0; }
NvEncLockBitstream(t) ==
    /\ Entered(t, "NvEncLockBitstream")
    /\ Return(t, NV_ENC_SUCCESS)
    /\ UNCHANGED <<mem, stub>>

\* line 23: NVENCSTATUS NvEncUnlockBitstream(void* encoder, NV_ENC_OUTPUT_PTR bitstreamBuffer) { return 0; }
NvEncUnlockBitstream(t) ==
    /\ Entered(t, "NvEncUnlockBitstream")
    /\ Return(t, NV_ENC_SUCCESS)
    /\ UNCHANGED <<mem, stub>>

\* Variant: the body reports the operation as not implemented.
NvEncRestoreEncoderState_Unimplemented(t) ==
    /\ Entered(t, "NvEncRestoreEncoderState")
    /\ Return(t, ErrorStatus)
    /\ UNCHANGED <<mem, stub>>

\* line 24: NVENCSTATUS NvEncRestoreEncoderState(void* encoder, NV_ENC_RESTORE_ENCODER_STATE_PARAMS* restoreState) { return 0; }
NvEncRestoreEncoderState(t) ==
    /\ Entered(t, "NvEncRestoreEncoderState")
    /\ Return(t, NV_ENC_SUCCESS)
    /\ UNCHANGED <<mem, stub>>

\* line 25: NVENCSTATUS NvEncLockInputBuffer(void* encoder, NV_ENC_LOCK_INPUT_BUFFER* lockInputBufferParams) { return 0; }
NvEncLockInputBuffer(t) ==
    /\ Entered(t, "NvEncLockInputBuffer")
    /\ Return(t, NV_ENC_SUCCESS)
    /\ UNCHANGED <<mem, stub>>

\* line 26: NVENCSTATUS NvEncUnlockInputBuffer(void* encoder, NV_ENC_INPUT_PTR inputBuffer) { return 0; }
NvEncUnlockInputBuffer(t) ==
    /\ Entered(t, "NvEncUnlockInputBuffer")
    /\ Return(t, NV_ENC_SUCCESS)
    /\ UNCHANGED <<mem, stub>>

\* line 27: NVENCSTATUS NvEncGetEncodeStats(void* encoder, NV_ENC_STAT* encodeStats) { return 0; }
NvEncGetEncodeStats(t) ==
    /\ Entered(t, "NvEncGetEncodeStats")
    /\ Return(t, NV_ENC_SUCCESS)
    /\ UNCHANGED <<mem, stub>>

\* line 28: NVENCSTATUS NvEncGetSequenceParams(void* encoder, NV_ENC_SEQUENCE_PARAM_PAYLOAD* sequenceParamPayload) { return 0; }
NvEncGetSequenceParams(t) ==
    /\ Entered(t, "NvEncGetSequenceParams")
    /\ Return(t, NV_ENC_SUCCESS)
    /\ UNCHANGED <<mem, stub>>

\* line 29: NVENCSTATUS NvEncGetSequenceParamEx(void* encoder, NV_ENC_INITIALIZE_PARAMS* encInitParams, NV_ENC_SEQUENCE_PARAM_PAYLOAD* sequenceParamPayload) { return 0; }
NvEncGetSequenceParamEx(t) ==
    /\ Entered(t, "NvEncGetSequenceParamEx")
    /\ Return(t, NV_ENC_SUCCESS)
    /\ UNCHANGED <<mem, stub>>

\* line 30: NVENCSTATUS NvEncRegisterAsyncEvent(void* encoder, NV_ENC_EVENT_PARAMS* eventParams) { return 0; }
NvEncRegisterAsyncEvent(t) ==
    /\ Entered(t, "NvEncRegisterAsyncEvent")
    /\ Return(t, NV_ENC_SUCCESS)
    /\ UNCHANGED <<mem, stub>>

\* line 31: NVENCSTATUS NvEncUnregisterAsyncEvent(void* encoder, NV_ENC_EVENT_PARAMS* eventParams) { return 0; }
NvEncUnregisterAsyncEvent(t) ==
    /\ Entered(t, "NvEncUnregisterAsyncEvent")
    /\ Return(t, NV_ENC_SUCCESS)
    /\ UNCHANGED <<mem, stub>>

\* line 32: NVENCSTATUS NvEncMapInputResource(void* encoder, NV_ENC_MAP_INPUT_RESOURCE* mapInputResParams) { return 0; }
NvEncMapInputResource(t) ==
    /\ Entered(t, "NvEncMapInputResource")
    /\ Return(t, NV_ENC_SUCCESS)
    /\ UNCHANGED <<mem, stub>>

\* line 33: NVENCSTATUS NvEncUnmapInputResource(void* encoder, NV_ENC_INPUT_PTR mappedInputBuffer) { return 0; }
NvEncUnmapInputResource(t) ==
    /\ Entered(t, "NvEncUnmapInputResource")
    /\ Return(t, NV_ENC_SUCCESS)
    /\ UNCHANGED <<mem, stub>>

\* Variant: the body rejects a handle that is not an open session.
NvEncDestroyEncoder_Checked(t) ==
    /\ Entered(t, "NvEncDestroyEncoder")
    /\ Return(t, IF call[t].encoder \in stub.sessions
                 THEN NV_ENC_SUCCESS ELSE ErrorStatus)
    /\ stub' = [stub EXCEPT !.sessions = @ \ {call[t].encoder}]
    /\ UNCHANGED mem

\* line 34: NVENCSTATUS NvEncDestroyEncoder(void* encoder) { return 0; }
NvEncDestroyEncoder(t) ==
    /\ Entered(t, "NvEncDestroyEncoder")
    /\ Return(t, NV_ENC_SUCCESS)
    /\ UNCHANGED <<mem, stub>>

\* line 35: NVENCSTATUS NvEncInvalidateRefFrames(void* encoder, uint64_t invalidRefFrameTimeStamp) { return 0; }
NvEncInvalidateRefFrames(t) ==
    /\ Entered(t, "NvEncInvalidateRefFrames")
    /\ Return(t, NV_ENC_SUCCESS)
    /\ UNCHANGED <<mem, stub>>

\* line 36: NVENCSTATUS NvEncOpenEncodeSessionEx(NV_ENC_OPEN_ENCODE_SESSION_EX_PARAMS *openSessionExParams, void** encoder) { return 0; }
NvEncOpenEncodeSessionEx(t) ==
    /\ Entered(t, "NvEncOpenEncodeSessionEx")
    /\ Return(t, NV_ENC_SUCCESS)
    /\ UNCHANGED <<mem, stub>>

\* line 37: NVENCSTATUS NvEncRegisterResource(void* encoder, NV_ENC_REGISTER_RESOURCE* registerResParams) { return 0; }
NvEncRegisterResource(t) ==
    /\ Entered(t, "NvEncRegisterResource")
    /\ Return(t, NV_ENC_SUCCESS)
    /\ UNCHANGED <<mem, stub>>

\* line 38: NVENCSTATUS NvEncUnregisterResource(void* encoder, NV_ENC_REGISTERED_PTR registeredResource) { return 0; }
NvEncUnregisterResource(t) ==
    /\ Entered(t, "NvEncUnregisterResource")
    /\ Return(t, NV_ENC_SUCCESS)
    /\ UNCHANGED <<mem, stub>>

\* line 39: NVENCSTATUS NvEncReconfigureEncoder(void *encoder, NV_ENC_RECONFIGURE_PARAMS* reInitEncodeParams) { return 0; }
NvEncReconfigureEncoder(t) ==
    /\ Entered(t, "NvEncReconfigureEncoder")
    /\ Return(t, NV_ENC_SUCCESS)
    /\ UNCHANGED <<mem, stub>>

\* line 40: NVENCSTATUS NvEncCreateMVBuffer(void* encoder, NV_ENC_CREATE_MV_BUFFER* createMVBufferParams) { return 0; }
NvEncCreateMVBuffer(t) ==
    /\ Entered(t, "NvEncCreateMVBuffer")
    /\ Return(t, NV_ENC_SUCCESS)
    /\ UNCHANGED <<mem, stub>>

\* line 41: NVENCSTATUS NvEncDestroyMVBuffer(void* encoder, NV_ENC_OUTPUT_PTR mvBuffer) { return 0; }
NvEncDestroyMVBuffer(t) ==
    /\ Entered(t, "NvEncDestroyMVBuffer")
    /\ Return(t, NV_ENC_SUCCESS)
    /\ UNCHANGED <<mem, stub>>

\* line 42: NVENCSTATUS NvEncRunMotionEstimationOnly(void* encoder, NV_ENC_MEONLY_PARAMS* meOnlyParams) { return 0; }
NvEncRunMotionEstimationOnly(t) ==
    /\ Entered(t, "NvEncRunMotionEstimationOnly")
    /\ Return(t, NV_ENC_SUCCESS)
    /\ UNCHANGED <<mem, stub>>

\* line 43: NVENCSTATUS NvEncodeAPIGetMaxSupportedVersion(uint32_t* version) { return 0; }
NvEncodeAPIGetMaxSupportedVersion(t) ==
    /\ Entered(t, "NvEncodeAPIGetMaxSupportedVersion")
    /\ Return(t, NV_ENC_SUCCESS)
    /\ UNCHANGED <<mem, stub>>

\* line 44: NVENCSTATUS NvEncLookaheadPicture(void* encoder, NV_ENC_LOOKAHEAD_PIC_PARAMS *lookaheadParamas) { return 0; }
NvEncLookaheadPicture(t) ==
    /\ Entered(t, "NvEncLookaheadPicture")
    /\ Return(t, NV_ENC_SUCCESS)
    /\ UNCHANGED <<mem, stub>>

\* line 45: NVENCSTATUS NvEncodeAPICreateInstance(NV_ENCODE_API_FUNCTION_LIST *functionList) { return 0; }
NvEncodeAPICreateInstance(t) ==
    /\ Entered(t, "NvEncodeAPICreateInstance")
    /\ Return(t, NV_ENC_SUCCESS)
    /\ UNCHANGED <<mem, stub>>

\* Any one of the 43 bodies, run by caller t.
Body(t) ==
    \/ NvEncOpenEncodeSession(t)
    \/ NvEncGetEncodeGUIDCount(t)
    \/ NvEncGetEncodeGUIDs(t)
    \/ NvEncGetEncodeProfileGUIDCount(t)
    \/ NvEncGetEncodeProfileGUIDs(t)
    \/ NvEncGetInputFormatCount(t)
    \/ NvEncGetInputFormats(t)
    \/ NvEncGetEncodeCaps(t)
    \/ NvEncGetEncodePresetCount(t)
    \/ NvEncGetEncodePresetGUIDs(t)
    \/ NvEncGetEncodePresetConfig(t)
    \/ NvEncGetEncodePresetConfigEx(t)
    \/ NvEncInitializeEncoder(t)
    \/ NvEncCreateInputBuffer(t)
    \/ NvEncDestroyInputBuffer(t)
    \/ NvEncSetIOCudaStreams(t)
    \/ NvEncCreateBitstreamBuffer(t)
    \/ NvEncDestroyBitstreamBuffer(t)
    \/ NvEncEncodePicture(t)
    \/ NvEncLockBitstream(t)
    \/ NvEncUnlockBitstream(t)
    \/ NvEncRestoreEncoderState(t)
    \/ NvEncLockInputBuffer(t)
    \/ NvEncUnlockInputBuffer(t)
    \/ NvEncGetEncodeStats(t)
    \/ NvEncGetSequenceParams(t)
    \/ NvEncGetSequenceParamEx(t)
    \/ NvEncRegisterAsyncEvent(t)
    \/ NvEncUnregisterAsyncEvent(t)
    \/ NvEncMapInputResource(t)
    \/ NvEncUnmapInputResource(t)
    \/ NvEncDestroyEncoder(t)
    \/ NvEncInvalidateRefFrames(t)
    \/ NvEncOpenEncodeSessionEx(t)
    \/ NvEncRegisterResource(t)
    \/ NvEncUnregisterResource(t)
    \/ NvEncReconfigureEncoder(t)
    \/ NvEncCreateMVBuffer(t)
    \/ NvEncDestroyMVBuffer(t)
    \/ NvEncRunMotionEstimationOnly(t)
    \/ NvEncodeAPIGetMaxSupportedVersion(t)
    \/ NvEncLookaheadPicture(t)
    \/ NvEncodeAPICreateInstance(t)

Step(t) == Invoke(t) \/ Body(t) \/ Resume(t)

Next == \E t \in callers : Step(t)

Spec == Init /\ [][Next]_vars

ConcSpec == ConcInit /\ [][Next]_vars

\* A function body is straight-line code on the caller's own thread: once
\* entered it keeps being scheduled until it returns.
FairSpec == ConcInit /\ [][Next]_vars /\ \A t \in AllCallers : WF_vars(Body(t))

\* =============================================================== claims
Returned(t) == pc[t] = "ret"

Succeeded(t) == ret[t] = <<NV_ENC_SUCCESS>>

\* C1: whenever any of the 43 functions has returned, for any handle and
\* pointer argument (null included), the status it returned is 0.
C1_AlwaysSuccess ==
    \A t \in callers : Returned(t) => call[t].fn \in Functions /\ Succeeded(t)

\* A capability query with a null handle and a null pointer has returned success.
C1_Witness ==
    /\ Returned(1) /\ Succeeded(1)
    /\ call[1].fn = "NvEncGetEncodeCaps"
    /\ call[1].encoder = Null /\ call[1].out = Null

\* C2: when a function has returned, the caller's output location holds the
\* value the caller put there before the call.
C2_NoOutputWritten ==
    \A t \in callers : Returned(t) => mem[t] = call[t].before

\* The GUID-count query, null handle, valid pointer to a location holding 1:
\* success, and the location still holds 1.
C2_Witness ==
    /\ Returned(1) /\ Succeeded(1)
    /\ call[1].fn = "NvEncGetEncodeGUIDCount"
    /\ call[1].encoder = Null /\ call[1].out = Addr(1)
    /\ call[1].before = 1 /\ mem[1] = 1

\* C3: with concurrent callers, every step in which a caller's function
\* returns gives status 0, writes no caller's memory, leaves the stub as it
\* was and leaves every other caller where it was, whatever ran before and
\* whatever runs at the same time.
C3_OrderIndependent ==
    [][\A t \in AllCallers :
          (pc[t] = "in" /\ pc'[t] = "ret") =>
              /\ ret'[t] = <<NV_ENC_SUCCESS>>
              /\ mem' = mem
              /\ stub' = InitStub
              /\ \A u \in AllCallers \ {t} :
                    pc'[u] = pc[u] /\ ret'[u] = ret[u] /\ call'[u] = call[u]]_vars

\* Two callers were inside NvEncEncodePicture at once; one has returned
\* success while the other is still inside.
C3_Witness ==
    /\ Returned(1) /\ Succeeded(1) /\ pc[2] = "in"
    /\ call[1].fn = "NvEncEncodePicture" /\ call[2].fn = "NvEncEncodePicture"
    /\ call[1].encoder = call[2].encoder

\* The call c is one the real encoder would reject after the history h:
\* work on a session never opened, a handle already destroyed (a repeated
\* destroy included), or a release with no matching earlier acquire.
Rejected(h, c) ==
    \/ /\ c.fn \in {"NvEncEncodePicture", "NvEncInitializeEncoder",
                    "NvEncLockBitstream", "NvEncDestroyEncoder"}
       /\ ~h.opened
    \/ c.fn \notin NoEncoderArg /\ c.encoder \in h.destroyed
    \/ c.fn \in ReleaseFns /\ Matching[c.fn] \notin h.acquired

\* C4: a call the real encoder would reject has still returned success.
C4_NoProtocol ==
    \A t \in callers :
        (Returned(t) /\ Rejected(hist, call[t])) => Succeeded(t)

\* NvEncDestroyEncoder has returned success on a handle it had already
\* destroyed, with no session ever opened.
C4_Witness ==
    /\ Returned(1) /\ Succeeded(1)
    /\ call[1].fn = "NvEncDestroyEncoder"
    /\ call[1].encoder = MaxHandle /\ MaxHandle \in hist.destroyed
    /\ ~hist.opened

\* The operations the interface description lists.
SpecOperations ==
    { "async-event registration",
      "async-event unregistration",
      "bitstream buffer creation",
      "bitstream buffer destruction",
      "bitstream lock",
      "bitstream unlock",
      "capability query",
      "encode-GUID enumeration",
      "encoder destruction",
      "encoder initialization",
      "encoder reconfiguration",
      "encoder-state restore",
      "encoder-state save",
      "function-list factory",
      "input buffer creation",
      "input buffer destruction",
      "input-buffer lock",
      "input-buffer unlock",
      "input-format enumeration",
      "input-resource map",
      "input-resource unmap",
      "lookahead picture submission",
      "max-supported-version query",
      "motion-estimation-only run",
      "motion-vector buffer creation",
      "motion-vector buffer destruction",
      "picture encoding",
      "preset config retrieval",
      "preset config retrieval (extended)",
      "preset enumeration",
      "profile-GUID enumeration",
      "reference-frame invalidation",
      "resource registration",
      "resource unregistration",
      "sequence-parameter retrieval",
      "sequence-parameter retrieval (extended)",
      "session open",
      "session open-ex",
      "statistics retrieval" }

Defined(op) == op \in DefinedOperations

\* C5 as stated: every listed operation, encoder-state save included, has a
\* function in the stub, and every such function returns success.
C5_Original ==
    /\ \A op \in SpecOperations : Defined(op)
    /\ \A t \in callers :
          (Returned(t) /\ Operation(call[t].fn) \in SpecOperations) => Succeeded(t)

\* C5 (amended): every listed operation except encoder-state save has a
\* function in the stub, no function of the stub saves encoder state, and
\* every function of a listed operation returns success.
C5_AllButSave ==
    /\ \A op \in SpecOperations \ {"encoder-state save"} : Defined(op)
    /\ ~Defined("encoder-state save")
    /\ \A t \in callers :
          (Returned(t) /\ Operation(call[t].fn) \in SpecOperations) => Succeeded(t)

\* The encoder-state restore function has returned success.
C5_Witness ==
    /\ Returned(1) /\ Succeeded(1)
    /\ call[1].fn = "NvEncRestoreEncoderState"
    /\ Operation(call[1].fn) = "encoder-state restore"

\* C6: the stub holds no session, buffer, registered or mapped resource,
\* lock or event, whatever calls have been made.
C6_Stateless == stub = InitStub

\* A session was opened, every Create/Lock/Map/Register function has
\* returned, a handle was destroyed, and a further call has returned.
C6_Witness ==
    /\ hist.opened /\ hist.acquired = AcquireFns /\ hist.destroyed # {}
    /\ Returned(1) /\ call[1].fn \in ReleaseFns
    /\ stub = InitStub

\* C7: every call that has started returns, under any scheduling of the
\* concurrent callers.
C7_EveryCallReturns ==
    \A t \in AllCallers : (pc[t] = "in") ~> (pc[t] = "ret")

\* NvEncLockBitstream has returned to one caller while another caller is
\* inside NvEncLockBitstream for the same handle.
C7_Witness ==
    /\ Returned(1) /\ call[1].fn = "NvEncLockBitstream"
    /\ pc[2] = "in" /\ call[2].fn = "NvEncLockBitstream"
    /\ call[1].encoder = call[2].encoder

\* The functions that, in the real encoder, produce a handle or a function
\* list through their pointer argument.
ProducerFns ==
    { "NvEncOpenEncodeSession", "NvEncOpenEncodeSessionEx",
      "NvEncodeAPICreateInstance" }

\* C8: the factory and the two open functions return success and leave the
\* location their pointer names as the caller initialised it.
C8_NothingProduced ==
    \A t \in callers :
        (Returned(t) /\ call[t].fn \in ProducerFns) =>
            Succeeded(t) /\ mem[t] = call[t].before

\* NvEncOpenEncodeSession has returned success with a valid pointer to a
\* handle variable initialised to null, and the variable is still null.
C8_Witness ==
    /\ Returned(1) /\ Succeeded(1)
    /\ call[1].fn = "NvEncOpenEncodeSession"
    /\ call[1].out = Addr(1) /\ call[1].before = Null /\ mem[1] = Null

=============================================================================
